---- MODULE Spec2Model ----
(***************************************************************************)
(* The authenticating reverse proxy of src/src/server/server.mjs: the      *)
(* credential store (globalAuthValue / globalAuthExpiry, getAuthValue),    *)
(* the credential provider (getBearerAuth), the '/content/' router and     *)
(* the proxy request executor (executeRequest).                            *)
(*                                                                         *)
(* JavaScript runs each callback to completion, so one action is one       *)
(* callback: the route handler up to its first await, the continuation     *)
(* after the identity service answered, one event of the upstream          *)
(* response stream.                                                        *)
(*                                                                         *)
(* Strings of the credential store are TLA+ strings ("" is the empty       *)
(* string, NULL stands for JavaScript's null).  URLs are sequences of      *)
(* one-character strings, so that charAt can be modelled.                  *)
(***************************************************************************)
EXTENDS Integers, Sequences, FiniteSets, TLC

\* ------------------------------------------------------------------ bounds
\* Number of inbound requests of a run.
NumReq == 2
\* Number of times the clock advances in a run.
MaxTicks == 2
\* Largest number of chunks of an upstream response body.
MaxChunks == 2
\* Longest serverUrl / inbound remainder drawn by the URL specification.
MaxUrlLen == 2

\* --------------------------------------------------------------- constants
FIVE_SECONDS_MS == 5000

NULL == "<null>"
NoHeader == "<no Authorization header>"
UNDEFINED == "undefined"

\* The clock advances by half a second or by 3596 seconds (just past the
\* refresh boundary of a one hour token).
Deltas == {500, 3596000}
\* expires_in values (seconds) the identity service answers with.
ExpiresIn == {3600, 6000}
\* access_token values, in the order the identity service issues them.
TokenNames == <<"A", "B", "C", "D", "E", "F", "G", "H">>

Methods == {"GET", "POST"}
StaticAuths == {"", "Basic c3RhdGlj"}
ClientIds == {"", "client-1"}
\* Node's --unhandled-rejections default: a warning (up to Node 14), or an
\* uncaught exception that ends the process (from Node 15)
RejectionModes == {"warn", "throw"}
\* the header names an inbound request carries
HeaderSets == {{}, {"accept"}}

Req == 1..NumReq

VARIABLES
  data,              \* the configuration read at startup (content.json)
  globalAuthValue,   \* the cached authorization header value
  globalAuthExpiry,  \* the cached expiry: null, a Date, or an invalid Date
  now,               \* the clock, in milliseconds
  ticks,             \* how often the clock advanced
  issued,            \* number of tokens the identity service issued
  providerCalls,     \* number of getBearerAuth invocations
  lastFetch,         \* history: the last successful fetch (time, expires_in, value)
  staleSeen,         \* history: a call began at or after the last fetch's T+E-5s
  lastFailed,        \* history: a Provider call failed and no call began or resolved since
  req,               \* the inbound requests
  unhandledRejections, \* what the runtime does with a rejection nobody handles
  crashed            \* the process exited on an uncaught exception

vars == <<data, globalAuthValue, globalAuthExpiry, now, ticks, issued,
          providerCalls, lastFetch, staleSeen, lastFailed, req, unhandledRejections,
          crashed>>

cred == <<globalAuthValue, globalAuthExpiry>>

\* ------------------------------------------------------------- JS helpers
NullDate == [kind |-> "null", ms |-> 0]
InvalidDate == [kind |-> "invalid", ms |-> 0]
DateOf(ms) == [kind |-> "date", ms |-> ms]

\* JSON / JavaScript values that may be undefined
JStr(s) == [t |-> "string", v |-> s]
JNum(n) == [t |-> "number", v |-> n]
JUndefined == [t |-> "undefined", v |-> 0]
\* `${x}` in a template literal
Template(x) == IF x.t = "undefined" THEN UNDEFINED ELSE x.v

\* !v for a string or null
Falsy(v) == v = "" \/ v = NULL

CharAt(s, i) == IF i \in 1..Len(s) THEN s[i] ELSE ""

\* ------------------------------------------------------------------- URLs
\* A URL is a sequence of one-character strings; the word content is one
\* element of it.
ServerChars == {"h", "/"}
PathChars == {"a", "/", "?"}

SeqsUpTo(S, n) == UNION {[1..k -> S] : k \in 0..n}

\* serverUrl values and inbound remainders the URL specification draws
AllServerUrls == SeqsUpTo(ServerChars, MaxUrlLen)
AllRemainders == SeqsUpTo(PathChars, MaxUrlLen)
\* the ones the proxy specification draws
ServerUrls == {<<"h">>, <<"h", "/">>}
Remainders == {<<"a">>}

\* The inbound URL of a request under the '/content/' prefix.
Inbound(rem) == <<"/", "content", "/">> \o rem

\* app.use('/content/', ...): Express removes the mount path from req.url
\* and keeps (or puts) a leading slash.
MountStrip(original) ==
  LET rest == SubSeq(original, 3, Len(original))
  IN  IF CharAt(rest, 1) # "/" THEN <<"/">> \o rest ELSE rest

\* a slip: '/content' whatever serverUrl ends with
BuildOceUrlNoCollapse(serverUrl, url) ==
  LET content == <<"/", "content">>
      content2 == IF CharAt(url, 1) # "/" THEN content \o <<"/">> ELSE content
  IN  serverUrl \o content2 \o url

\* server.mjs 212-217
BuildOceUrl(serverUrl, url) ==
  LET content == IF CharAt(serverUrl, Len(serverUrl)) = "/"
                 THEN <<"content">> ELSE <<"/", "content">>
      content2 == IF CharAt(url, 1) # "/" THEN content \o <<"/">> ELSE content
  IN  serverUrl \o content2 \o url

\* ------------------------------------------------------ credential store
\* a slip: authorization always asked for
isAuthNeededAlways == TRUE

\* a slip: every method proxied
ProxiedAnyMethod(m) == m \in {"GET", "POST"}

\* server.mjs 207: only GET requests are proxied
Proxied(m) == m = "GET"

\* server.mjs 81-86
isAuthNeeded == data.auth # "" \/ data.clientId # ""

\* server.mjs 131: a static value is configured
StaticConfigured == data.auth # ""

\* server.mjs 134: client credentials are configured
ClientConfigured == data.clientId # ""

\* a slip: only the expiry looked at
NeedsRefreshExpiryOnly(value, expiry, currentDate) ==
  /\ expiry.kind = "date"
  /\ (expiry.ms - FIVE_SECONDS_MS) > currentDate

\* Date.getTime(): NaN for an invalid Date.  A comparison with NaN is false.
\* server.mjs 140-141
NeedsRefresh(value, expiry, currentDate) ==
  \/ Falsy(value)
  \/ expiry.kind = "null"
  \/ /\ expiry.kind = "date"
     /\ (expiry.ms - FIVE_SECONDS_MS) > currentDate

\* server.mjs 148-150: Date.now() plus the Provider's expiry; an expiry of
\* undefined makes the sum NaN and the Date invalid.
NewExpiry(nowMs, expiry) ==
  IF expiry.t = "undefined" THEN InvalidDate ELSE DateOf(nowMs + expiry.v)

\* server.mjs 118-124: what getBearerAuth resolves with, from the
\* response's JSON body
BearerAuth(json) ==
  [authHeaderValue |-> "Bearer " \o Template(json.access_token),
   expiry |-> json.expires_in]

\* a slip: the client id looked at before the static value
AuthBranchClientFirst ==
  IF ClientConfigured THEN "oauth"
  ELSE IF StaticConfigured THEN "static" ELSE "none"

\* server.mjs 131-156: the branch getAuthValue takes
AuthBranch ==
  IF StaticConfigured THEN "static"
  ELSE IF ClientConfigured THEN "oauth" ELSE "none"

\* ---------------------------------------------- the spec's validity window
\* [T, T+E-5s) of the last successful fetch, on the millisecond clock
WindowEnd(f) == f.T + 1000 * f.E - FIVE_SECONDS_MS
InWindow(f, t) == f.ok /\ f.T <= t /\ t < WindowEnd(f)
AtOrAfterWindow(f, t) == f.ok /\ t >= WindowEnd(f)

NoFetch == [ok |-> FALSE, T |-> 0, E |-> 0, value |-> ""]

\* ---------------------------------------------------------------- requests
NewReq == [
  pc |-> "new",            \* new, dropped, fetching, rejected, upstream, streaming, ended
  method |-> "", url |-> <<>>, oceUrl |-> <<>>,
  authHeader |-> NoHeader, \* options.headers.Authorization of the upstream call
  upstreamCalls |-> 0,     \* http(s).request calls made for this request
  resolved |-> FALSE,      \* getAuthValue resolved
  auth |-> "",             \* ... with this value
  called |-> 0,            \* getBearerAuth invocations of this request's getAuthValue
  fetched |-> "",          \* header value derived from its Provider response
  before |-> <<"", NullDate>>, \* credential state when its getAuthValue began
  clean |-> TRUE,          \* no other call wrote the credential state meanwhile
  inWindow |-> FALSE,      \* its getAuthValue began inside the window of lastFetch
  windowVal |-> "",        \* ... whose value was this
  firstStale |-> FALSE,    \* it is the first call at or after the window's end
  afterFailure |-> FALSE,  \* it is the first call to begin after a failed Provider call
  joinedTo |-> {},         \* the calls whose fetch was in flight when it began
  gotError |-> FALSE,      \* the identity service answered it with an error document
  rem |-> <<>>,            \* the inbound URL after '/content/'
  inHeaders |-> {},        \* the header names of the inbound request
  upHeaders |-> {},        \* the header names given to the upstream call
  upStatus |-> 0,          \* status and number of body chunks of the upstream response
  upTotal |-> 0, upSent |-> 0, upEnded |-> FALSE,
  upBuf |-> <<>>,          \* chunks buffered in the paused upstream response
  paused |-> FALSE,        \* res.write returned false, the pipe paused the source
  resLog |-> <<>>          \* what was written to the inbound response, in order
]

Statuses == {200, 404}
\* entries of resLog
HeadEntry(status) == [k |-> "head", v |-> status]
ChunkEntry(i) == [k |-> "chunk", v |-> i]
EndEntry == [k |-> "end", v |-> 0]

Fetching == {r \in Req : req[r].pc = "fetching"}

\* ------------------------------------------------------------------- Init
TypeInit(servers) ==
  /\ unhandledRejections \in RejectionModes
  /\ crashed = FALSE
  /\ data \in [auth : StaticAuths, clientId : ClientIds, serverUrl : servers]
  /\ globalAuthValue = ""
  /\ globalAuthExpiry = NullDate
  /\ now = 0
  /\ ticks = 0
  /\ issued = 0
  /\ providerCalls = 0
  /\ lastFetch = NoFetch
  /\ staleSeen = FALSE
  /\ lastFailed = FALSE
  /\ req = [r \in Req |-> NewReq]

Init == TypeInit(ServerUrls)

\* ---------------------------------------------------------------- actions
\* server.mjs 221-224: the header names of options, which is all that
\* http(s).request is given (186-188); req.pipe(proxy) carries the body only.
OptionHeaders(authHeader) ==
  IF authHeader = NoHeader THEN {} ELSE {"authorization"}

\* a slip: the header read from the global, not from what getAuthValue
\* resolved with
ExecuteRequestGlobalAuth(rec, oceUrl, authHeader) ==
  [rec EXCEPT !.pc = "upstream", !.oceUrl = oceUrl,
              !.authHeader = IF authHeader = NoHeader THEN NoHeader ELSE globalAuthValue,
              !.upHeaders = OptionHeaders(authHeader),
              !.upstreamCalls = @ + 1]

\* server.mjs 176-194, up to the calls of http(s).request and req.pipe: the
\* upstream call is made with the url and the options given.
ExecuteRequest(rec, oceUrl, authHeader) ==
  [rec EXCEPT !.pc = "upstream", !.oceUrl = oceUrl, !.authHeader = authHeader,
              !.upHeaders = OptionHeaders(authHeader),
              !.upstreamCalls = @ + 1]

\* the history a getAuthValue call records when it begins
Began(rec) ==
  [rec EXCEPT !.before = cred,
              !.inWindow = InWindow(lastFetch, now),
              !.windowVal = lastFetch.value,
              !.firstStale = AtOrAfterWindow(lastFetch, now) /\ ~staleSeen,
              !.afterFailure = lastFailed,
              !.joinedTo = Fetching]

\* another call wrote the credential state: calls in flight are not clean
Dirty(r, changed) ==
  [q \in Req |-> IF q # r /\ changed /\ req[q].pc = "fetching"
                 THEN [req[q] EXCEPT !.clean = FALSE] ELSE req[q]]

\* server.mjs 205-230 with getAuthValue (130-159) up to its await: the
\* route handler for request r, with method m, the inbound remainder rem and
\* the inbound header names hdrs.
Handle(r, m, rem, hdrs) ==
  LET url == MountStrip(Inbound(rem))
      oceUrl == BuildOceUrl(data.serverUrl, url)
      rec == [req[r] EXCEPT !.method = m, !.url = url, !.rem = rem, !.inHeaders = hdrs]
  IN
  /\ ~crashed
  /\ req[r].pc = "new"
  /\ \A q \in Req : q < r => req[q].pc # "new"
  /\ IF ~Proxied(m)
     THEN /\ req' = [req EXCEPT ![r] = [rec EXCEPT !.pc = "dropped"]]
          /\ UNCHANGED <<globalAuthValue, globalAuthExpiry, providerCalls, staleSeen,
                         lastFailed>>
     ELSE IF ~isAuthNeeded
     THEN /\ req' = [req EXCEPT ![r] = ExecuteRequest(rec, oceUrl, NoHeader)]
          /\ UNCHANGED <<globalAuthValue, globalAuthExpiry, providerCalls, staleSeen,
                         lastFailed>>
     ELSE
       /\ staleSeen' = (staleSeen \/ AtOrAfterWindow(lastFetch, now))
       /\ lastFailed' = FALSE
       /\ CASE AuthBranch = "static" ->
              /\ globalAuthValue' = data.auth
              /\ req' = [Dirty(r, globalAuthValue # data.auth) EXCEPT ![r] =
                     ExecuteRequest([Began(rec) EXCEPT !.resolved = TRUE,
                                                       !.auth = data.auth],
                                    oceUrl, data.auth)]
              /\ UNCHANGED <<globalAuthExpiry, providerCalls>>
            [] AuthBranch = "oauth" ->
              IF NeedsRefresh(globalAuthValue, globalAuthExpiry, now)
              THEN /\ globalAuthValue' = ""
                   /\ providerCalls' = providerCalls + 1
                   /\ req' = [Dirty(r, globalAuthValue # "") EXCEPT ![r] =
                          [Began(rec) EXCEPT !.pc = "fetching", !.oceUrl = oceUrl,
                                             !.called = @ + 1]]
                   /\ UNCHANGED globalAuthExpiry
              ELSE /\ req' = [req EXCEPT ![r] =
                          ExecuteRequest([Began(rec) EXCEPT !.resolved = TRUE,
                                                            !.auth = globalAuthValue],
                                         oceUrl, globalAuthValue)]
                   /\ UNCHANGED <<globalAuthValue, globalAuthExpiry, providerCalls>>
            [] OTHER ->
              /\ globalAuthValue' = NULL
              /\ globalAuthExpiry' = NullDate
              /\ req' = [Dirty(r, cred # <<NULL, NullDate>>) EXCEPT ![r] =
                     ExecuteRequest([Began(rec) EXCEPT !.resolved = TRUE,
                                                       !.auth = NULL],
                                    oceUrl, NULL)]
              /\ UNCHANGED providerCalls
  /\ UNCHANGED <<data, unhandledRejections, crashed, now, ticks, issued, lastFetch>>

\* the JSON bodies the identity service answers with
TokenJson(n, e) == [access_token |-> JStr(TokenNames[n]), expires_in |-> JNum(e)]
\* a non-2xx answer, or a 2xx one without access_token: an error document
ErrorJson == [access_token |-> JUndefined, expires_in |-> JUndefined]

\* server.mjs 114-124, 144-158 and 223-226: the identity service answered
\* request r's fetch with a JSON body; getBearerAuth resolves, getAuthValue
\* stores the pair and resolves, the router makes the upstream call.
FetchResolved(r, json) ==
  LET authDetails == BearerAuth(json)
      ok == json.access_token.t = "string"
  IN
  /\ ~crashed
  /\ req[r].pc = "fetching"
  /\ globalAuthValue' = authDetails.authHeaderValue
  /\ globalAuthExpiry' = NewExpiry(now, authDetails.expiry)
  /\ req' = [Dirty(r, TRUE) EXCEPT ![r] =
         ExecuteRequest([req[r] EXCEPT !.resolved = TRUE, !.gotError = ~ok,
                                       !.auth = authDetails.authHeaderValue,
                                       !.fetched = authDetails.authHeaderValue],
                        req[r].oceUrl, authDetails.authHeaderValue)]
  /\ issued' = IF ok THEN issued + 1 ELSE issued
  /\ lastFetch' = IF ok THEN [ok |-> TRUE, T |-> now, E |-> json.expires_in.v,
                               value |-> authDetails.authHeaderValue]
                  ELSE lastFetch
  /\ staleSeen' = IF ok THEN FALSE ELSE staleSeen
  /\ lastFailed' = FALSE
  /\ UNCHANGED <<data, unhandledRejections, crashed, now, ticks, providerCalls>>

FetchOk(r, e) == FetchResolved(r, TokenJson(issued + 1, e))

FetchError(r) == FetchResolved(r, ErrorJson)

\* The process exits on an uncaught exception: every open inbound
\* connection is reset and the state of the requests is gone.  Requests
\* answered in full stay as they are; request r, which caused it, keeps pc why.
ProcessExit(r, why) ==
  [q \in Req |->
     IF q = r THEN [NewReq EXCEPT !.pc = why]
     ELSE IF req[q].pc \in {"new", "ended"} THEN req[q]
     ELSE [NewReq EXCEPT !.pc = "killed"]]

\* server.mjs 106-114 and 143: fetch or response.json() rejects (network
\* failure, a body that is not JSON); the await in getAuthValue throws and
\* its promise rejects.  The router's then-callback (223-226) does not run
\* and nothing catches the rejection: the runtime warns, or throws.
FetchReject(r) ==
  /\ ~crashed
  /\ req[r].pc = "fetching"
  /\ IF unhandledRejections = "throw"
     THEN /\ crashed' = TRUE
          /\ req' = ProcessExit(r, "rejected")
     ELSE /\ crashed' = FALSE
          /\ req' = [req EXCEPT ![r].pc = "rejected"]
  /\ lastFailed' = TRUE
  /\ UNCHANGED <<data, unhandledRejections, globalAuthValue, globalAuthExpiry, now,
                 ticks, issued, providerCalls, lastFetch, staleSeen>>

\* time passes
Tick(d) ==
  /\ ~crashed
  /\ ticks < MaxTicks
  /\ now' = now + d
  /\ ticks' = ticks + 1
  /\ UNCHANGED <<data, unhandledRejections, lastFailed, crashed, globalAuthValue, globalAuthExpiry, issued, providerCalls,
                 lastFetch, staleSeen, req>>

\* ------------------------------------------------------------- executor
\* Writable.write of the inbound response: the entry is appended.
ResWrite(log, entry) == Append(log, entry)

\* server.mjs 178-183: the upstream response arrived with a status and a
\* body of n chunks to come; writeHead, then pipe.
UpstreamResponse(r, status, n) ==
  /\ ~crashed
  /\ req[r].pc = "upstream"
  /\ req' = [req EXCEPT ![r] = [@ EXCEPT !.pc = "streaming", !.upStatus = status,
                !.upTotal = n,
                !.resLog = ResWrite(@, HeadEntry(status))]]
  /\ UNCHANGED <<data, unhandledRejections, lastFailed, crashed, globalAuthValue, globalAuthExpiry, now, ticks, issued,
                 providerCalls, lastFetch, staleSeen>>

\* a slip: a chunk whose write returns false is taken as not written
PipeDataDropWhenFull(rec, chunk, full) ==
  IF full THEN [rec EXCEPT !.paused = TRUE]
  ELSE [rec EXCEPT !.resLog = ResWrite(@, ChunkEntry(chunk)), !.paused = full]

\* pipe's data listener (server.mjs 180): the chunk is written to the
\* inbound response; write returning false (full) pauses the source.
PipeData(rec, chunk, full) ==
  [rec EXCEPT !.resLog = ResWrite(@, ChunkEntry(chunk)), !.paused = full]

\* the next chunk of the upstream body arrives: it is emitted at once when
\* the stream flows and holds nothing, buffered otherwise
UpstreamData(r, full) ==
  LET rec == [req[r] EXCEPT !.upSent = @ + 1]
      chunk == req[r].upSent + 1
  IN
  /\ ~crashed
  /\ req[r].pc = "streaming"
  /\ req[r].upSent < req[r].upTotal
  /\ req' = [req EXCEPT ![r] =
         IF ~req[r].paused
         THEN PipeData(rec, chunk, full)
         ELSE [rec EXCEPT !.upBuf = Append(@, chunk)]]
  /\ UNCHANGED <<data, unhandledRejections, lastFailed, crashed, globalAuthValue, globalAuthExpiry, now, ticks, issued,
                 providerCalls, lastFetch, staleSeen>>

\* Readable.resume after the inbound response drained: the source emits its
\* buffered chunks in order until a write returns false again
RECURSIVE FlowBuffered(_, _, _)
FlowBuffered(rec, j, full) ==
  IF j = 0 THEN rec
  ELSE FlowBuffered(PipeData([rec EXCEPT !.upBuf = Tail(@)], Head(rec.upBuf),
                             full /\ j = 1),
                    j - 1, full)

\* the inbound response drained: pipe resumes the source, which emits j
\* buffered chunks; the last of these writes returns false when full
Drain(r, j, full) ==
  /\ ~crashed
  /\ req[r].pc = "streaming"
  /\ req[r].paused
  /\ j \in 0..Len(req[r].upBuf)
  /\ (j = 0) = (req[r].upBuf = <<>>)
  /\ j < Len(req[r].upBuf) => full
  /\ j = 0 => ~full
  /\ req' = [req EXCEPT ![r] = FlowBuffered([req[r] EXCEPT !.paused = FALSE], j, full)]
  /\ UNCHANGED <<data, unhandledRejections, lastFailed, crashed, globalAuthValue, globalAuthExpiry, now, ticks, issued,
                 providerCalls, lastFetch, staleSeen>>

\* the upstream body is complete
UpstreamEnd(r) ==
  /\ ~crashed
  /\ req[r].pc = "streaming"
  /\ req[r].upSent = req[r].upTotal
  /\ ~req[r].upEnded
  /\ req' = [req EXCEPT ![r].upEnded = TRUE]
  /\ UNCHANGED <<data, unhandledRejections, lastFailed, crashed, globalAuthValue, globalAuthExpiry, now, ticks, issued,
                 providerCalls, lastFetch, staleSeen>>

\* pipe with end: true (server.mjs 180-182): the source emits end once its
\* buffer is read, and the inbound response is ended
PipeEnd(r) ==
  /\ ~crashed
  /\ req[r].pc = "streaming"
  /\ req[r].upEnded
  /\ req[r].upBuf = <<>>
  /\ req' = [req EXCEPT ![r] = [@ EXCEPT !.pc = "ended",
                !.resLog = ResWrite(@, EndEntry)]]
  /\ UNCHANGED <<data, unhandledRejections, lastFailed, crashed, globalAuthValue, globalAuthExpiry, now, ticks, issued,
                 providerCalls, lastFetch, staleSeen>>

\* server.mjs 186-188: the upstream connection fails before a response
\* arrived (content service unreachable, connection reset).  proxy emits
\* 'error'; executeRequest registered no listener for it, so the event is
\* thrown as an uncaught exception.
UpstreamError(r) ==
  /\ ~crashed
  /\ req[r].pc \in {"upstream", "closedEarly"}
  /\ crashed' = TRUE
  /\ req' = ProcessExit(r, "errored")
  /\ UNCHANGED <<data, unhandledRejections, lastFailed, globalAuthValue, globalAuthExpiry, now,
                 ticks, issued, providerCalls, lastFetch, staleSeen>>

\* The client closes the inbound connection of request r while its upstream
\* call is open.  executeRequest (176-194) listens to no close event of req
\* or res and never aborts proxy.  While streaming, pipe's own close
\* listener unpipes the source, which stops flowing: the rest of the upstream
\* body is never read.  The request context is gone with the connection.
InboundClose(r) ==
  /\ ~crashed
  /\ \/ /\ req[r].pc = "streaming" /\ ~req[r].upEnded
        /\ req' = [req EXCEPT ![r] = [NewReq EXCEPT !.pc = "orphaned"]]
     \/ /\ req[r].pc = "upstream"
        /\ req' = [req EXCEPT ![r] = [NewReq EXCEPT !.pc = "closedEarly"]]
  /\ UNCHANGED <<data, unhandledRejections, lastFailed, crashed, globalAuthValue,
                 globalAuthExpiry, now, ticks, issued, providerCalls, lastFetch,
                 staleSeen>>

\* server.mjs 178-183 for a request whose inbound connection is closed:
\* writeHead and write on the destroyed response send nothing and write
\* returns false, so pipe pauses the source at the first chunk for a drain
\* that never comes; a body of no chunks ends at once.
UpstreamResponseAfterClose(r, n) ==
  /\ ~crashed
  /\ req[r].pc = "closedEarly"
  /\ req' = [req EXCEPT ![r].pc = IF n = 0 THEN "closed" ELSE "orphaned"]
  /\ UNCHANGED <<data, unhandledRejections, lastFailed, crashed, globalAuthValue,
                 globalAuthExpiry, now, ticks, issued, providerCalls, lastFetch,
                 staleSeen>>

\* ------------------------------------------------------------------- Next
\* the router, the credential store and the credential provider
RouterNext(reqs, rems) ==
  \/ \E r \in reqs, m \in Methods, rem \in rems, hdrs \in HeaderSets :
       Handle(r, m, rem, hdrs)
  \/ \E r \in Req, e \in ExpiresIn : FetchOk(r, e)
  \/ \E r \in Req : FetchError(r)
  \/ \E r \in Req : FetchReject(r)

\* the events of the upstream responses
ExecutorNext ==
  \/ \E r \in Req, s \in Statuses, n \in 0..MaxChunks : UpstreamResponse(r, s, n)
  \/ \E r \in Req, full \in BOOLEAN : UpstreamData(r, full)
  \/ \E r \in Req, j \in 0..MaxChunks, full \in BOOLEAN : Drain(r, j, full)
  \/ \E r \in Req : UpstreamEnd(r)
  \/ \E r \in Req : PipeEnd(r)
  \/ \E r \in Req, n \in 0..MaxChunks : UpstreamResponseAfterClose(r, n)

\* what the network does to a proxied request: the upstream connection
\* fails, the client goes away
FailureNext ==
  \/ \E r \in Req : UpstreamError(r)
  \/ \E r \in Req : InboundClose(r)

\* The credential store under the clock: requests up to their upstream call.
\* The executor's events change no variable but a request's own streaming
\* fields, and are left to SpecExec.
Next ==
  \/ RouterNext(Req, Remainders)
  \/ \E d \in Deltas : Tick(d)

Spec == Init /\ [][Next]_vars

\* The executor: requests from arrival to the end of the proxied response,
\* in the configurations that need no token fetch.
InitExec ==
  TypeInit({<<"h">>}) /\ data.clientId = "" /\ unhandledRejections = "throw"

NextExec ==
  \/ \E r \in Req, m \in Methods, rem \in Remainders : Handle(r, m, rem, {"accept"})
  \/ ExecutorNext
  \/ FailureNext

SpecExec == InitExec /\ [][NextExec]_vars

\* The executor where every event of an upstream response that can happen
\* does happen: the content service and the event loop make progress.
\* Failures and new requests may or may not occur.
SpecExecFair == SpecExec /\ WF_vars(ExecutorNext)

\* The credential store where the identity service answers every fetch and
\* every continuation runs.
SpecFair == Spec /\ WF_vars(RouterNext(Req, Remainders))

\* URL building: one request, with every serverUrl and every inbound
\* remainder up to MaxUrlLen.
InitUrl == TypeInit(AllServerUrls)

NextUrl == RouterNext({1}, AllRemainders)

SpecUrl == InitUrl /\ [][NextUrl]_vars
\* ================================================================ claims
OAuth2Mode == data.auth = "" /\ data.clientId # ""

\* C1: in OAuth2 mode, a getAuthValue call that begins inside [T, T+E-5s) of
\* the last successful fetch makes no call to the Credential Provider and
\* returns the cached value.
C1_CachedInsideWindow ==
  OAuth2Mode =>
    \A r \in Req :
      req[r].inWindow =>
        /\ req[r].called = 0
        /\ req[r].resolved => req[r].auth = req[r].windowVal

\* C2: in OAuth2 mode, the first getAuthValue call that begins at or after
\* T+E-5s of the last successful fetch invokes the Credential Provider once
\* and returns the newly fetched value, not the cached one.
C2_RefreshAtWindowEnd ==
  OAuth2Mode =>
    \A r \in Req :
      req[r].firstStale =>
        /\ req[r].called = 1
        /\ req[r].resolved =>
             (req[r].auth = req[r].fetched /\ req[r].auth # req[r].windowVal)

\* C3: single-flight refresh: a getAuthValue call that begins while another
\* call's fetch is in flight makes no Provider call of its own, and both
\* callers receive the same value.
C3_SingleFlight ==
  \A r \in Req : \A q \in req[r].joinedTo :
    /\ req[r].called = 0
    /\ (req[r].resolved /\ req[q].resolved) => req[r].auth = req[q].auth

\* C4: when the Provider call of a getAuthValue call fails (and no other
\* call wrote the credential state meanwhile), the credential state after
\* the failure is the one from before the call began.
C4_FailureLeavesState ==
  [][\A r \in Req :
       (req[r].pc = "fetching" /\ req'[r].pc = "rejected" /\ req[r].clean)
         => cred' = req[r].before]_vars

\* C5: an answer of the identity service without access_token (a non-2xx
\* error document) surfaces as a failure: the call does not resolve, no
\* upstream call carries a header derived from the answer, and neither a
\* value nor an expiry derived from it is stored.
C5_ErrorAnswerIsFailure ==
  /\ \A r \in Req : req[r].gotError => (~req[r].resolved /\ req[r].upstreamCalls = 0)
  /\ globalAuthValue # BearerAuth(ErrorJson).authHeaderValue
  /\ globalAuthExpiry.kind # "invalid"

\* C6: with a static authorization value configured (client credentials
\* configured or not), the Credential Provider is never invoked and every
\* getAuthValue call resolves at once with exactly the static value.
C6_StaticBypass ==
  data.auth # "" =>
    /\ providerCalls = 0
    /\ \A r \in Req :
         /\ req[r].called = 0
         /\ req[r].pc \notin {"fetching", "rejected"}
         /\ req[r].method = "GET" =>
              (req[r].resolved /\ req[r].auth = data.auth
                /\ req[r].authHeader = data.auth)

C6_Witness ==
  /\ data.auth # "" /\ data.clientId # ""
  /\ ticks >= 1
  /\ \A r \in Req : req[r].resolved /\ req[r].upstreamCalls = 1

\* C7: with neither a static value nor a client id configured, every GET
\* request is executed upstream without an Authorization header, no
\* credential fetch occurs and the credential state stays empty.
C7_NoAuthPassthrough ==
  (data.auth = "" /\ data.clientId = "") =>
    /\ providerCalls = 0
    /\ cred = <<"", NullDate>>
    /\ \A r \in Req :
         req[r].method = "GET" =>
           /\ req[r].pc = "upstream" /\ req[r].upstreamCalls = 1
           /\ req[r].authHeader = NoHeader
           /\ ~req[r].resolved /\ req[r].called = 0

C7_Witness ==
  /\ data.auth = "" /\ data.clientId = ""
  /\ ticks >= 1
  /\ \A r \in Req : req[r].method = "GET" /\ req[r].pc = "upstream"

\* C8: a request under /content/ whose method is not GET is dropped: no
\* upstream call, no credential fetch, nothing written to its response, and
\* its handler leaves the credential state as it was.
C8_MethodFiltering ==
  [][\A r \in Req :
       req'[r].method \notin {"", "GET"} =>
         /\ req'[r].pc = "dropped"
         /\ req'[r].upstreamCalls = 0 /\ req'[r].called = 0
         /\ req'[r].resLog = <<>>
         /\ req[r].pc = "new" => (cred' = cred /\ providerCalls' = providerCalls)]_vars

C8_Witness ==
  /\ data.auth # ""
  /\ \E r, q \in Req :
       /\ req[r].pc = "dropped" /\ req[r].method = "POST"
       /\ req[q].pc = "ended" /\ q < r

\* serverUrl without its trailing slash
StripSlash(u) ==
  IF CharAt(u, Len(u)) = "/" THEN SubSeq(u, 1, Len(u) - 1) ELSE u

FullResponse(rec) ==
  <<HeadEntry(rec.upStatus)>> \o [i \in 1..rec.upTotal |-> ChunkEntry(i)]
    \o <<EndEntry>>

\* the number of body chunks written to the inbound response
ChunksWritten(rec) == Cardinality({i \in 1..Len(rec.resLog) : rec.resLog[i].k = "chunk"})

\* C10: the upstream status is written before any body chunk; the chunks
\* are written in the order received, none dropped or duplicated; a chunk
\* is held back only while the inbound response is full, never for the
\* upstream body to finish; the response is ended only after the last chunk.
C10_StreamingOrder ==
  \A r \in Req :
    LET rec == req[r] IN
    /\ rec.resLog = SubSeq(FullResponse(rec), 1, Len(rec.resLog))
    /\ rec.pc \in {"streaming", "ended"} =>
         /\ Len(rec.resLog) >= 1
         /\ ChunksWritten(rec) + Len(rec.upBuf) = rec.upSent
         /\ rec.upBuf # <<>> => rec.paused
    /\ (rec.pc = "ended") = (rec.resLog # <<>> /\ rec.resLog[Len(rec.resLog)] = EndEntry)
    /\ rec.pc = "ended" => rec.resLog = FullResponse(rec)

C10_Witness ==
  \E r, q \in Req :
    /\ req[r].pc = "ended" /\ req[r].upTotal = MaxChunks
    /\ req[q].pc = "streaming" /\ req[q].upSent < req[q].upTotal
    /\ ChunksWritten(req[q]) = 1 /\ ~req[q].upEnded

\* C11: the upstream call carries the inbound request's own headers, and
\* the Authorization header besides when authorization is required.
C11_InboundHeadersForwarded ==
  \A r \in Req :
    req[r].upstreamCalls > 0 =>
      /\ req[r].inHeaders \subseteq req[r].upHeaders
      /\ req[r].authHeader # NoHeader => "authorization" \in req[r].upHeaders

\* C12: a successful refresh at time now with expires_in = E seconds stores
\* the expiry instant now + 1000 * E on the millisecond clock.
C12_ExpiryFromSeconds ==
  [][lastFetch' # lastFetch =>
       globalAuthExpiry' = DateOf(now + 1000 * lastFetch'.E)]_vars

\* C13: a request whose credential fetch failed gets no upstream call, and
\* the server eventually terminates its inbound connection.
C13_FailedFetchTerminates ==
  \A r \in Req :
    /\ [](req[r].pc = "rejected" => req[r].upstreamCalls = 0)
    /\ (req[r].pc = "rejected") ~> crashed

\* C14: after a getAuthValue call whose Provider call failed the Store is
\* usable: the server runs, the next call invokes the Provider again, and
\* when that succeeds it returns the new value, cached with its expiry.
C14_UsableAfterFailure ==
  /\ (\E r \in Req : req[r].pc = "rejected") => ~crashed
  /\ \A r \in Req :
       (OAuth2Mode /\ req[r].afterFailure) =>
         /\ req[r].called = 1
         /\ (req[r].resolved /\ ~req[r].gotError) =>
              /\ req[r].auth = req[r].fetched
              /\ req[r].clean =>
                   (lastFetch.value = req[r].auth
                     => globalAuthValue \in {req[r].auth, ""})

\* C15: in OAuth2 mode, whenever the cached value is non-empty, the expiry
\* instant is present and comes from the Provider response the value came
\* from.
C15_AtomicPair ==
  (OAuth2Mode /\ ~crashed /\ ~Falsy(globalAuthValue)) =>
    /\ globalAuthExpiry.kind = "date"
    /\ lastFetch.ok /\ lastFetch.value = globalAuthValue
    /\ globalAuthExpiry = NewExpiry(lastFetch.T, JNum(lastFetch.E))

\* C16: an upstream connection failure on one request ends that request
\* only: the server runs on and no other request in flight is terminated.
C16_UpstreamFailureIsolated ==
  \A r \in Req :
    req[r].pc = "errored" =>
      /\ ~crashed
      /\ \A q \in Req \ {r} : req[q].pc # "killed"

\* the inbound connection of the request is closed and its upstream
\* connection is open
Orphan(r) == req[r].pc \in {"orphaned", "closedEarly"}

\* C17: when the inbound connection closes before the upstream response has
\* completed, the upstream connection is eventually aborted or closed.
C17_UpstreamAbortedOnClose ==
  \A r \in Req : Orphan(r) ~> ~Orphan(r)

\* the header values the Provider produced so far
Produced ==
  {BearerAuth(TokenJson(i, e)).authHeaderValue : i \in 1..issued, e \in ExpiresIn}
    \cup (IF \E q \in Req : req[q].gotError
          THEN {BearerAuth(ErrorJson).authHeaderValue} ELSE {})

\* C18: in OAuth2 mode, every getAuthValue call that resolves, resolves
\* with a non-empty value that a Provider response produced, never with the
\* empty string written before a fetch.
C18_NeverTransientEmpty ==
  OAuth2Mode =>
    \A r \in Req :
      req[r].resolved => (~Falsy(req[r].auth) /\ req[r].auth \in Produced)

C18_Witness ==
  /\ OAuth2Mode
  /\ \E r, q \in Req :
       /\ q \in req[r].joinedTo
       /\ req[r].resolved /\ req[q].resolved /\ req[r].auth # req[q].auth

\* C19: when authorization is required, the upstream call of a GET request
\* is made only once its getAuthValue call resolved, with exactly the
\* resolved value as Authorization, and at most once.
C19_UpstreamAfterAuth ==
  (data.auth # "" \/ data.clientId # "") =>
    \A r \in Req :
      /\ req[r].upstreamCalls <= 1
      /\ req[r].upstreamCalls = 1 =>
           (req[r].resolved /\ req[r].authHeader = req[r].auth)
      /\ req[r].pc \in {"fetching", "rejected"} =>
           (req[r].upstreamCalls = 0 /\ ~req[r].resolved)

C19_Witness ==
  /\ OAuth2Mode
  /\ \E r, q \in Req :
       /\ req[r].upstreamCalls = 1 /\ req[r].called = 1
       /\ req[q].pc = "fetching" /\ req[q].upstreamCalls = 0
====
